---- MODULE Spec2Model ----
(***************************************************************************)
(* The review/revise loop of codereview.py: a three-node state graph       *)
(* (handle_reviewer, handle_coder, handle_result) with one conditional     *)
(* edge (deployment_ready), driven by a text generator (llm).              *)
(*                                                                         *)
(* A Python str is a sequence of one-character strings, so that strip(),   *)
(* concatenation, length and the substring test of the code are computed   *)
(* character by character.  The graph state is the dict the graph threads  *)
(* through the nodes: `state` holds the values and `keys` the keys that    *)
(* are present (state.get(k, d) is d when k is not in keys).               *)
(***************************************************************************)
EXTENDS Integers, Sequences, FiniteSets, TLC

VARIABLES
    pc,        \* the statement / graph node that runs next
    state,     \* GraphState values
    keys,      \* the keys of GraphState that are set
    answer,    \* <<r>>: r is the response the edge function has just read; <<>> otherwise
    raised,    \* the exception that ended the run, "none" while none has
    emitted,   \* the values printed so far, in order
    shape,     \* the input dict handed to app.invoke: <<"full">>, <<"missing", k>>, <<"empty", k>>
    log,       \* the node executions completed so far: <<node, output>>
    unresolved, \* no resolution check so far has answered "yes" in any letter case
    calls,     \* the number of text generator invocations made so far
    rd         \* a call of remove_duplicates: its argument, its result, whether it returned

vars == <<pc, state, keys, answer, raised, emitted, shape, log, unresolved, calls, rd>>

-----------------------------------------------------------------------------
(* Bounds of the model *)

\* the longest run of blanks the text generator returns
MaxPad == 13

\* the longest list handed to remove_duplicates
MaxLen == 3

-----------------------------------------------------------------------------
(* Python strings *)

\* the whitespace characters that occur in the modelled texts (str.strip() removes
\* these and the other ASCII/Unicode whitespace alike)
Whitespace == {" ", "\n", "\t"}

Blank(n) == [i \in 1..n |-> " "]

RECURSIVE LStrip(_)
LStrip(s) == IF s # <<>> /\ Head(s) \in Whitespace THEN LStrip(Tail(s)) ELSE s

RECURSIVE RStrip(_)
RStrip(s) ==
    IF s # <<>> /\ s[Len(s)] \in Whitespace THEN RStrip(SubSeq(s, 1, Len(s) - 1)) ELSE s

\* str.strip()
Strip(s) == RStrip(LStrip(s))

\* `sub in s`
Contains(s, sub) ==
    \E i \in 1..(Len(s) - Len(sub) + 1) : SubSeq(s, i, i + Len(sub) - 1) = sub

-----------------------------------------------------------------------------
(* Literals of the program *)

yes == <<"y", "e", "s">>

python == <<"p", "y", "t", "h", "o", "n">>

\* "\n REVIEWER:\n"
reviewer_tag == <<"\n", " ", "R", "E", "V", "I", "E", "W", "E", "R", ":", "\n">>

\* '\n CODER:\n'
coder_tag == <<"\n", " ", "C", "O", "D", "E", "R", ":", "\n">>

\* `state.get('iterations') > 5`
iteration_cap == 5

\* {"recursion_limit": 100}
recursion_limit == 100

StrFields == {"history", "code", "actual_code", "specialization"}

InputFields == StrFields \cup {"iterations"}

\* a variant that prints the transcript first
PrintOrderSwapped == <<"history", "code", "feedback", "rating", "code_compare">>

\* the order of the five print statements
PrintOrder == <<"code", "history", "feedback", "rating", "code_compare">>

-----------------------------------------------------------------------------
(* What the text generator may return *)

SeedTexts == {<<>>, <<"x", " ">>, Blank(MaxPad)}

ReviewTexts == {<<>>, <<"-", " ", "f", " ">>}

CodeTexts == {<<>>, <<" ", "x", "\n">>}

No == <<"N", "o", ".">>

YesAllResolved ==
    <<"Y", "e", "s", ",", " ", "a", "l", "l", " ", "i", "s", "s", "u", "e", "s", " ",
      "r", "e", "s", "o", "l", "v", "e", "d", ".">>

CheckTexts ==
    {No, <<>>, yes, <<"Y", "e", "s">>, <<"Y", "E", "S">>, <<"y", "E", "s">>, YesAllResolved}

RatingTexts == {<<"7">>}

CompareTexts == {<<"7">>, <<>>}

-----------------------------------------------------------------------------
(* The graph state *)

\* state.get(k, d)
Get(s, ks, k, d) == IF k \in ks THEN s[k] ELSE d

\* the values of the keys that are not set
Unset ==
    [feedback |-> <<>>, history |-> <<>>, code |-> <<>>, specialization |-> <<>>,
     rating |-> <<>>, iterations |-> 0, code_compare |-> <<>>, actual_code |-> <<>>]

\* the graph writes the dict a node returns into the state
Update(s, upd) == [k \in DOMAIN s |-> IF k \in DOMAIN upd THEN upd[k] ELSE s[k]]

\* the dict handed to app.invoke
InitialState(code, sh) ==
    LET full == [Unset EXCEPT !.history = code, !.code = code, !.actual_code = code,
                              !.specialization = python, !.iterations = 0]
    IN  CASE sh[1] = "full" -> full
          [] sh[1] = "missing" -> [full EXCEPT ![sh[2]] = Unset[sh[2]]]
          [] sh[1] = "empty" -> [full EXCEPT ![sh[2]] = <<>>]

InitialKeys(sh) == IF sh[1] = "missing" THEN InputFields \ {sh[2]} ELSE InputFields

\* a variant that swallows the exception and runs the statement again
OnErrorRetry(at) == at

\* an exception nobody catches ends the run
OnError(at) == "failed"

Raise(kind) ==
    /\ pc' = OnError(pc)
    /\ raised' = kind
    /\ UNCHANGED <<state, keys, answer, emitted, shape, log, unresolved, rd>>

-----------------------------------------------------------------------------
(* The nodes *)

\* a variant that forgets to count the review
handle_reviewer_uncounted(s, ks, feedback) ==
    [history |-> Strip(Get(s, ks, "history", <<>>)) \o reviewer_tag \o feedback,
     feedback |-> feedback,
     iterations |-> s.iterations]

\* a variant that starts the transcript anew at every review
handle_reviewer_overwrite(s, ks, feedback) ==
    [history |-> reviewer_tag \o feedback,
     feedback |-> feedback,
     iterations |-> s.iterations + 1]

handle_reviewer(s, ks, feedback) ==
    [history |-> Strip(Get(s, ks, "history", <<>>)) \o reviewer_tag \o feedback,
     feedback |-> feedback,
     iterations |-> s.iterations + 1]

\* a variant that starts the transcript anew at every revision
handle_coder_overwrite(s, ks, code) ==
    [history |-> coder_tag \o code,
     code |-> code]

\* a variant that strips the revision before it logs it
handle_coder_stripped(s, ks, code) ==
    [history |-> Strip(Get(s, ks, "history", <<>>)) \o coder_tag \o Strip(code),
     code |-> code]

\* a variant that also takes the revision as the new baseline
handle_coder_baseline(s, ks, code) ==
    [history |-> Strip(Get(s, ks, "history", <<>>)) \o coder_tag \o code,
     code |-> code,
     actual_code |-> code]

handle_coder(s, ks, code) ==
    [history |-> Strip(Get(s, ks, "history", <<>>)) \o coder_tag \o code,
     code |-> code]

\* a variant that forgets to return the comparison
handle_result_rating_only(s, ks, rating, code_compare) ==
    [rating |-> rating]

\* a variant that also returns the transcript it has stripped
handle_result_history(s, ks, rating, code_compare) ==
    [rating |-> rating, code_compare |-> code_compare,
     history |-> Strip(Get(s, ks, "history", <<>>))]

handle_result(s, ks, rating, code_compare) ==
    [rating |-> rating, code_compare |-> code_compare]

\* a variant whose cap is late by one
deployment_ready_late(s, response) ==
    LET ready == Contains(response, yes)
        total_iterations == s.iterations > iteration_cap + 1
    IN  IF ready \/ total_iterations THEN "handle_result" ELSE "handle_coder"

\* a variant whose cap is early by one
deployment_ready_early(s, response) ==
    LET ready == Contains(response, yes)
        total_iterations == s.iterations >= iteration_cap
    IN  IF ready \/ total_iterations THEN "handle_result" ELSE "handle_coder"

deployment_ready(s, response) ==
    LET ready == Contains(response, yes)
        total_iterations == s.iterations > iteration_cap
    IN  IF ready \/ total_iterations THEN "handle_result" ELSE "handle_coder"

\* workflow.set_entry_point
entry_point == "handle_reviewer"

\* a variant in which the revision goes straight to the result
add_edge_direct(node) ==
    CASE node = "handle_coder" -> "handle_result"
      [] node = "handle_result" -> "print"

\* a variant whose edge from handle_coder names a node the graph does not have
add_edge_misspelt(node) ==
    CASE node = "handle_coder" -> "handle_review"
      [] node = "handle_result" -> "print"

\* workflow.add_edge: the node that follows `node`; after END, app.invoke returns
\* and the prints run
add_edge(node) ==
    CASE node = "handle_coder" -> "handle_reviewer"
      [] node = "handle_result" -> "print"

\* the number of llm(...) calls the statement or node `at` makes
llm_calls(at) == IF at = "handle_result" THEN 2 ELSE 1

\* a node runs only below the recursion limit
BelowLimit == Len(log) < recursion_limit

-----------------------------------------------------------------------------
(* Bookkeeping for the properties *)

\* str.lower() on the letters the responses use
LowerChar(c) ==
    CASE c = "Y" -> "y"
      [] c = "E" -> "e"
      [] c = "S" -> "s"
      [] OTHER -> c

\* the response in lower case, as a case-insensitive search reads it
Lower(s) == [i \in 1..Len(s) |-> LowerChar(s[i])]

-----------------------------------------------------------------------------
(* Actions *)

\* the state before line 105, for an input dict of shape sh
InitShape(sh) ==
    /\ pc = "start"
    /\ state = Unset
    /\ keys = {}
    /\ answer = <<>>
    /\ raised = "none"
    /\ emitted = <<>>
    /\ shape = sh
    /\ log = <<>>
    /\ unresolved = TRUE
    /\ calls = 0
    /\ rd = [data |-> <<>>, result |-> <<>>, returned |-> FALSE]

\* the program as written: every input key is given
Init == InitShape(<<"full">>)

\* the input dicts with one key left out or one string empty
Shapes ==
    {<<"full">>} \cup {<<"missing", k>> : k \in InputFields}
                 \cup {<<"empty", k>> : k \in StrFields}

InitMalformed == \E sh \in Shapes : InitShape(sh)

\* code = llm(problem); app.invoke({...}) enters the graph at handle_reviewer
Start ==
    /\ pc = "start"
    /\ \/ /\ Raise("llm")
          /\ calls' = calls + llm_calls("start")
       \/ \E code \in SeedTexts :
            /\ state' = InitialState(code, shape)
            /\ keys' = InitialKeys(shape)
            /\ pc' = entry_point
            /\ calls' = calls + llm_calls("start")
            /\ UNCHANGED <<answer, raised, emitted, shape, log, unresolved, rd>>

Reviewer ==
    /\ pc = "handle_reviewer"
    /\ \/ /\ Raise(IF BelowLimit THEN "llm" ELSE "GraphRecursionError")
          /\ calls' = IF BelowLimit THEN calls + llm_calls("handle_reviewer") ELSE calls
       \/ /\ BelowLimit
          /\ "iterations" \notin keys
          /\ Raise("TypeError")
          /\ calls' = calls + llm_calls("handle_reviewer")
       \/ /\ BelowLimit
          /\ "iterations" \in keys
          /\ calls' = calls + llm_calls("handle_reviewer")
          /\ \E feedback \in ReviewTexts :
               LET upd == handle_reviewer(state, keys, feedback)
               IN  /\ state' = Update(state, upd)
                   /\ keys' = keys \cup DOMAIN upd
                   /\ log' = Append(log, <<"handle_reviewer", feedback>>)
          /\ pc' = "deployment_ready"
          /\ answer' = <<>>
          /\ UNCHANGED <<raised, emitted, shape, unresolved, rd>>

\* a variant that asks the generator only while the cap is not reached
DeploymentReadyShortCircuit ==
    /\ pc = "deployment_ready"
    /\ IF state.iterations > iteration_cap
       THEN /\ pc' = "handle_result"
            /\ UNCHANGED <<state, keys, answer, raised, emitted, shape, log,
                           unresolved, calls, rd>>
       ELSE \/ /\ Raise("llm")
               /\ calls' = calls + llm_calls("deployment_ready")
            \/ \E response \in CheckTexts :
                 /\ answer' = <<response>>
                 /\ calls' = calls + llm_calls("deployment_ready")
                 /\ pc' = deployment_ready(state, response)
                 /\ unresolved' = (unresolved /\ ~Contains(Lower(response), yes))
                 /\ UNCHANGED <<state, keys, raised, emitted, shape, log, rd>>

DeploymentReady ==
    /\ pc = "deployment_ready"
    /\ \/ /\ Raise("llm")
          /\ calls' = calls + llm_calls("deployment_ready")
       \/ \E response \in CheckTexts :
            /\ answer' = <<response>>
            /\ calls' = calls + llm_calls("deployment_ready")
            /\ pc' = deployment_ready(state, response)
            /\ unresolved' = (unresolved /\ ~Contains(Lower(response), yes))
            /\ UNCHANGED <<state, keys, raised, emitted, shape, log, rd>>

Coder ==
    /\ pc = "handle_coder"
    /\ \/ /\ Raise(IF BelowLimit THEN "llm" ELSE "GraphRecursionError")
          /\ calls' = IF BelowLimit THEN calls + llm_calls("handle_coder") ELSE calls
       \/ /\ BelowLimit
          /\ calls' = calls + llm_calls("handle_coder")
          /\ \E code \in CodeTexts :
               LET upd == handle_coder(state, keys, code)
               IN  /\ state' = Update(state, upd)
                   /\ keys' = keys \cup DOMAIN upd
                   /\ log' = Append(log, <<"handle_coder", code>>)
          /\ pc' = add_edge("handle_coder")
          /\ answer' = <<>>
          /\ UNCHANGED <<raised, emitted, shape, unresolved, rd>>

Result ==
    /\ pc = "handle_result"
    /\ \/ /\ Raise(IF BelowLimit THEN "llm" ELSE "GraphRecursionError")
          /\ \E n \in 1..llm_calls("handle_result") :
                calls' = IF BelowLimit THEN calls + n ELSE calls
       \/ /\ BelowLimit
          /\ calls' = calls + llm_calls("handle_result")
          /\ \E rating \in RatingTexts, code_compare \in CompareTexts :
               LET upd == handle_result(state, keys, rating, code_compare)
               IN  /\ state' = Update(state, upd)
                   /\ keys' = keys \cup DOMAIN upd
                   /\ log' = Append(log, <<"handle_result", rating>>)
          /\ pc' = add_edge("handle_result")
          /\ answer' = <<>>
          /\ UNCHANGED <<raised, emitted, shape, unresolved, rd>>

\* print(conversation[k]) for the next of the five keys
PrintNext ==
    /\ pc = "print"
    /\ LET k == PrintOrder[Len(emitted) + 1]
       IN  \/ /\ k \notin keys
              /\ Raise("KeyError")
              /\ UNCHANGED calls
           \/ /\ k \in keys
              /\ emitted' = Append(emitted, state[k])
              /\ pc' = IF Len(emitted') = Len(PrintOrder) THEN "done" ELSE "print"
              /\ UNCHANGED <<state, keys, answer, raised, shape, log, unresolved, calls, rd>>

Next ==
    \/ Start
    \/ Reviewer
    \/ DeploymentReady
    \/ Coder
    \/ Result
    \/ PrintNext

Spec == Init /\ [][Next]_vars

\* the same graph, invoked with a malformed input dict
SpecMalformed == InitMalformed /\ [][Next]_vars

\* the program runs on while a statement is left to run: it is one synchronous thread
SpecLive == Init /\ [][Next]_vars /\ WF_vars(Next)

-----------------------------------------------------------------------------
(* remove_duplicates of OrigCode.py *)

\* list elements: the ints 1 and 2, and the lists [1] and [2]
Items == {<<"int", 1>>, <<"int", 2>>, <<"list", 1>>, <<"list", 2>>}

\* hash(item) succeeds for an int and raises TypeError for a list
Hashable(item) == item[1] = "int"

\* the lists of at most MaxLen items
Lists == UNION {[1..n -> Items] : n \in 0..MaxLen}

\* the for loop: `item not in seen` raises TypeError for an unhashable item, and
\* the except branch appends it unchecked
RECURSIVE remove_duplicates_loop(_, _, _)
remove_duplicates_loop(data, seen, result) ==
    IF data = <<>> THEN result
    ELSE LET item == Head(data)
         IN  IF Hashable(item)
             THEN IF item \notin seen
                  THEN remove_duplicates_loop(Tail(data), seen \cup {item}, Append(result, item))
                  ELSE remove_duplicates_loop(Tail(data), seen, result)
             ELSE remove_duplicates_loop(Tail(data), seen, Append(result, item))

remove_duplicates(data) == remove_duplicates_loop(data, {}, <<>>)

InitDedup ==
    /\ pc = "start"
    /\ state = Unset
    /\ keys = {}
    /\ answer = <<>>
    /\ raised = "none"
    /\ emitted = <<>>
    /\ shape = <<"full">>
    /\ log = <<>>
    /\ unresolved = TRUE
    /\ calls = 0
    /\ \E data \in Lists : rd = [data |-> data, result |-> <<>>, returned |-> FALSE]

\* result = remove_duplicates(data)
RemoveDuplicates ==
    /\ ~rd.returned
    /\ rd' = [rd EXCEPT !.result = remove_duplicates(rd.data), !.returned = TRUE]
    /\ UNCHANGED <<pc, state, keys, answer, raised, emitted, shape, log, unresolved, calls>>

NextDedup == RemoveDuplicates

SpecDedup == InitDedup /\ [][NextDedup]_vars

-----------------------------------------------------------------------------
(* Properties *)

NumOf(node) == Cardinality({i \in DOMAIN log : log[i][1] = node})

NumReviewer == NumOf("handle_reviewer")

NumCoder == NumOf("handle_coder")

IsPrefix(p, s) == Len(p) =< Len(s) /\ SubSeq(s, 1, Len(p)) = p

\* the edge function has just chosen the next node
Decided == Len(answer) = 1 /\ pc \in {"handle_coder", "handle_result"}

\* the step that was just taken is an execution of `node`
Ran(node) == Len(log') = Len(log) + 1 /\ log'[Len(log')][1] = node

\* C1: the Termination Policy continues (routes to the Coder Step) if and only if
\* iterations <= 5 and the response does not contain "yes" in any letter case;
\* otherwise it terminates (routes to the Finalizer).
C1_TerminationPolicy ==
    Decided =>
        (pc = "handle_coder" <=>
            (state.iterations =< 5 /\ ~Contains(Lower(answer[1]), yes)))

\* C2: when the first resolution check answers "Yes, all issues resolved.", the run
\* goes to the Finalizer after 1 Reviewer Step and 0 Coder Steps, iterations = 1.
C2_ImmediateApproval ==
    (Decided /\ NumReviewer = 1 /\ answer[1] = YesAllResolved) =>
        (pc = "handle_result" /\ NumCoder = 0 /\ state.iterations = 1)

\* C3: whatever the generator returns, the Reviewer Step executes at most 6 times
\* and iterations never exceeds 6.
C3_IterationCap == NumReviewer =< 6 /\ state.iterations =< 6

C3_Witness == NumReviewer = 6 /\ pc = "handle_result"

\* the log alternates handle_reviewer, handle_coder, ..., handle_reviewer
Alternates(n) ==
    \A i \in 1..n :
        log[i][1] = IF i % 2 = 1 THEN "handle_reviewer" ELSE "handle_coder"

\* C4: when every resolution check reports the feedback as unresolved, the Finalizer
\* runs after exactly 6 Reviewer Steps and 5 Coder Steps, alternating and starting
\* and ending with a Reviewer Step, with iterations = 6.
C4_NeverApproved ==
    (unresolved /\ pc \in {"handle_result", "print", "done"}) =>
        /\ NumReviewer = 6
        /\ NumCoder = 5
        /\ Alternates(11)
        /\ state.iterations = 6
        /\ pc # "handle_result" => (Len(log) = 12 /\ log[12][1] = "handle_result")

C4_Witness == unresolved /\ pc = "done" /\ NumReviewer = 6

\* C5: iterations equals the number of Reviewer Steps completed; a Reviewer Step
\* adds exactly 1 and no other step changes it.
C5_IterationsCountReviews ==
    /\ [](state.iterations = NumReviewer)
    /\ [][state'.iterations =
            state.iterations + (IF Ran("handle_reviewer") THEN 1 ELSE 0)]_vars

C5_Witness == NumReviewer = 3 /\ NumCoder = 3 /\ state.iterations = 3

\* the transcript replayed from the seed and the executed steps
RECURSIVE Replay(_, _)
Replay(seed, lg) ==
    IF lg = <<>> THEN seed
    ELSE LET e == lg[Len(lg)]
             before == Replay(seed, SubSeq(lg, 1, Len(lg) - 1))
         IN  CASE e[1] = "handle_reviewer" ->
                    Strip(before) \o reviewer_tag \o e[2]
               [] e[1] = "handle_coder" ->
                    Strip(before) \o coder_tag \o e[2]
               [] OTHER -> before

\* the transcript as it was before the last executed step
PrevHistory == Replay(state.actual_code, SubSeq(log, 1, Len(log) - 1))

\* C6 as stated: history before a Reviewer or Coder Step is a prefix of history
\* after it.
C6_AppendOnly ==
    [][(Ran("handle_reviewer") \/ Ran("handle_coder")) =>
            IsPrefix(state.history, state'.history)]_vars

\* C6 as amended: history before a Reviewer or Coder Step, stripped of its leading
\* and trailing whitespace, is a prefix of history after it.
C6_AppendOnlyStripped ==
    [][(Ran("handle_reviewer") \/ Ran("handle_coder")) =>
            IsPrefix(Strip(state.history), state'.history)]_vars

\* a Coder Step has appended to a transcript that ended in whitespace, and the
\* transcript before it is no prefix of the transcript after it
C6_Witness ==
    /\ log # <<>>
    /\ log[Len(log)][1] = "handle_coder"
    /\ Strip(PrevHistory) # PrevHistory
    /\ ~IsPrefix(PrevHistory, state.history)

\* C7 as stated: no step makes history shorter.
C7_LengthMonotone == [][Len(state'.history) >= Len(state.history)]_vars

\* C7 as amended: after every step history is at least as long as the stripped
\* history before the step; the Finalizer leaves it as it is.
C7_LengthMonotoneStripped ==
    [][/\ Len(state'.history) >= Len(Strip(state.history))
       /\ Ran("handle_result") => state'.history = state.history]_vars

\* a review has made the transcript shorter than the seed it started from
C7_Witness ==
    /\ NumReviewer = 1
    /\ NumCoder = 0
    /\ Len(state.history) < Len(state.actual_code)

\* the transcript the specification describes: the tagged blocks alone
RECURSIVE TaggedBlocks(_)
TaggedBlocks(lg) ==
    IF lg = <<>> THEN <<>>
    ELSE LET e == lg[Len(lg)]
             before == TaggedBlocks(SubSeq(lg, 1, Len(lg) - 1))
         IN  CASE e[1] = "handle_reviewer" ->
                    before \o <<"\n", "R", "E", "V", "I", "E", "W", "E", "R", ":", "\n">> \o e[2]
               [] e[1] = "handle_coder" ->
                    before \o <<"\n", "C", "O", "D", "E", "R", ":", "\n">> \o e[2]
               [] OTHER -> before

\* C8 as stated: history is the concatenation, in execution order, of
\* "\nREVIEWER:\n" + feedback and "\nCODER:\n" + code of the executed steps.
C8_TaggedConcat == keys # {} => state.history = TaggedBlocks(log)

\* C8 as amended: history is the seed code followed, for each executed step in
\* order, by stripping the transcript so far and appending "\n REVIEWER:\n" +
\* feedback or "\n CODER:\n" + code, the response verbatim.
C8_Replay == keys # {} => state.history = Replay(state.actual_code, log)

C8_Witness ==
    /\ NumReviewer = 2
    /\ NumCoder = 2
    /\ state.code = <<" ", "x", "\n">>
    /\ state.history # TaggedBlocks(log)

\* C9: a failed generator call is neither caught nor retried: nothing runs after
\* it, the failing step writes nothing, rating and comparison summary stay unset
\* and nothing is printed.
C9_FailureAborts ==
    [][/\ raised = "none"
       /\ raised' # "none" =>
            /\ pc' = "failed"
            /\ state' = state
            /\ keys' = keys
            /\ log' = log
            /\ emitted' = <<>>
            /\ "rating" \notin keys'
            /\ "code_compare" \notin keys']_vars

C9_Witness == raised = "llm" /\ pc = "failed" /\ NumReviewer = 2 /\ NumCoder = 1

\* C10: a run whose input dict lacks one required field, or has it empty, raises no
\* error of its own before the Finalizer has run.
C10_MalformedNonFatal ==
    (shape # <<"full">> /\ raised \notin {"none", "llm"}) => NumOf("handle_result") = 1

NumResult == NumOf("handle_result")

\* C11: the first step is a Reviewer Step; a Reviewer Step is followed by a Coder
\* Step or the Finalizer, a Coder Step by a Reviewer Step, the Finalizer by nothing;
\* the run ends only after the Finalizer.
C11_Transitions ==
    /\ log # <<>> => log[1][1] = "handle_reviewer"
    /\ \A i \in 1..(Len(log) - 1) :
         /\ log[i][1] = "handle_reviewer" =>
                log[i + 1][1] \in {"handle_coder", "handle_result"}
         /\ log[i][1] = "handle_coder" => log[i + 1][1] = "handle_reviewer"
         /\ log[i][1] # "handle_result"
    /\ pc \in {"handle_coder", "handle_result", "deployment_ready"} =>
            log[Len(log)][1] = "handle_reviewer"
    /\ pc \in {"print", "done"} => log[Len(log)][1] = "handle_result"

C11_Witness == pc = "print" /\ NumCoder = 2 /\ NumReviewer = 3 /\ NumResult = 1

\* C12: rating and comparison summary are unset until the Finalizer runs; the
\* Finalizer runs at most once and sets both; after it no node runs and no field
\* is written.
C12_FinalizerTerminal ==
    /\ [](/\ NumResult =< 1
          /\ NumResult = 0 => ("rating" \notin keys /\ "code_compare" \notin keys)
          /\ NumResult = 1 =>
                /\ "rating" \in keys
                /\ "code_compare" \in keys
                /\ log[Len(log)][1] = "handle_result")
    /\ [][NumResult = 1 => (state' = state /\ keys' = keys /\ log' = log)]_vars

C12_Witness ==
    /\ pc = "done"
    /\ NumResult = 1
    /\ state.rating = <<"7">>
    /\ state.code_compare = <<"7">>

\* C13: specialization and actual_code keep the values given to app.invoke in
\* every state of the run; no node changes them.
C13_Immutable ==
    /\ [](keys # {} =>
            /\ {"specialization", "actual_code"} \subseteq keys
            /\ state.specialization = python
            /\ state.actual_code \in SeedTexts)
    /\ [][keys # {} =>
            /\ state'.specialization = state.specialization
            /\ state'.actual_code = state.actual_code]_vars

C13_Witness == pc = "done" /\ NumCoder = 2 /\ state.code # state.actual_code

\* C14: nothing is printed before the Finalizer has run; the values printed are, in
\* this order, code, history, feedback, rating, code_compare of the final state; a
\* completed run has printed exactly these five.
C14_Emits ==
    LET final == <<state.code, state.history, state.feedback, state.rating,
                   state.code_compare>>
    IN  /\ emitted # <<>> => NumResult = 1
        /\ Len(emitted) =< 5
        /\ emitted = SubSeq(final, 1, Len(emitted))
        /\ pc = "done" => emitted = final

C14_Witness == pc = "done" /\ Len(emitted) = 5 /\ NumCoder = 1

\* the items of data, each at its first occurrence
RECURSIVE FirstOccurrences(_)
FirstOccurrences(data) ==
    IF data = <<>> THEN <<>>
    ELSE LET init == SubSeq(data, 1, Len(data) - 1)
             last == data[Len(data)]
         IN  IF \E i \in DOMAIN init : init[i] = last
             THEN FirstOccurrences(init)
             ELSE Append(FirstOccurrences(init), last)

\* C15: remove_duplicates(data) has no two equal elements, holds every element of
\* data, keeps the order of first occurrence, and is a fixed point of
\* remove_duplicates, for hashable and unhashable elements alike.
C15_Unique ==
    rd.returned =>
        /\ \A i, j \in DOMAIN rd.result : rd.result[i] = rd.result[j] => i = j
        /\ \A i \in DOMAIN rd.data : \E j \in DOMAIN rd.result : rd.result[j] = rd.data[i]
        /\ rd.result = FirstOccurrences(rd.data)
        /\ remove_duplicates(rd.result) = rd.result

\* C16: a run in which every generator call returns reaches the Finalizer and then
\* its end.
C16_Terminates == <>(raised # "none" \/ (pc = "done" /\ NumResult = 1))

C16_Witness == pc = "done" /\ NumResult = 1 /\ NumReviewer = 4 /\ raised = "none"

\* the step leaves the fields in F as they are, set or unset
Same(F) == \A k \in F : state'[k] = state[k] /\ (k \in keys' <=> k \in keys)

\* C17: a Reviewer Step changes only history, feedback and iterations; a Coder Step
\* only history and code; the Finalizer only rating and code_compare; the
\* Termination Policy nothing.
C17_Frame ==
    [][/\ Ran("handle_reviewer") =>
            Same(DOMAIN state \ {"history", "feedback", "iterations"})
       /\ Ran("handle_coder") => Same(DOMAIN state \ {"history", "code"})
       /\ Ran("handle_result") => Same(DOMAIN state \ {"rating", "code_compare"})
       /\ pc = "deployment_ready" => Same(DOMAIN state)]_vars

C17_Witness == pc = "done" /\ NumCoder = 3 /\ state.code = <<" ", "x", "\n">>

\* C18: one resolution check follows every Reviewer Step, also the one that reaches
\* the cap; a completed run with r reviews has made 3r + 2 generator calls, and no
\* run makes more than 20.
C18_CallCount ==
    /\ calls =< 20
    /\ (raised = "none" /\ pc \in {"handle_coder", "handle_result"}) =>
            /\ Len(answer) = 1
            /\ calls = 1 + 2 * NumReviewer + NumCoder
    /\ pc = "done" => calls = 3 * NumReviewer + 2

C18_Witness == pc = "done" /\ NumReviewer = 6 /\ calls = 20

\* the code the last Reviewer Step has read
ReviewedCode ==
    IF NumCoder = 0 THEN state.actual_code ELSE log[Len(log) - 1][2]

\* C19: when the Finalizer starts, the last step was a Reviewer Step, there is one
\* Coder Step fewer than Reviewer Steps, 1 <= iterations <= 6, and the feedback is
\* the review of the code as it is now.
C19_FinalizerStart ==
    pc = "handle_result" =>
        /\ log[Len(log)][1] = "handle_reviewer"
        /\ NumCoder = NumReviewer - 1
        /\ state.iterations >= 1
        /\ state.iterations =< 6
        /\ state.feedback = log[Len(log)][2]
        /\ NumCoder > 0 => log[Len(log) - 1][1] = "handle_coder"
        /\ state.code = ReviewedCode

C19_Witness ==
    /\ pc = "handle_result"
    /\ NumCoder = 2
    /\ state.code # state.actual_code
    /\ state.feedback = <<"-", " ", "f", " ">>

====
